---- MODULE Spec2Model ----
(***************************************************************************)
(* A model of the wordposty dashboard's own logic: the in-memory sliding   *)
(* window rate limiter (src/lib/rate-limiter.ts), the API route handlers   *)
(* that sit in front of the external services, and the editor workflow     *)
(* (src/components/ai-editor.tsx).                                         *)
(*                                                                         *)
(* Time is counted in ticks of the millisecond clock Date.now(); the       *)
(* window length, the per-service capacities and the one-second constant   *)
(* are scaled down so that windows fill up and expire inside the explored  *)
(* horizon.  The limiter only ever compares differences of clock readings  *)
(* with windowMs and list lengths with maxRequests.                        *)
(***************************************************************************)
EXTENDS Integers, Sequences, FiniteSets, Bags, TLC

VARIABLES now, requests, recent, last, wrl, waiter, inflight, workflow,
          wordpress, history, sourceItems, applied

vars ==
  <<now, requests, recent, last, wrl, waiter, inflight, workflow, wordpress,
    history, sourceItems, applied>>

\* the source list of the content input, and the function application the
\* step just taken has made
inputVars == <<sourceItems, applied>>

\* the state of the editor page: its two stores and what it has seen so far
editorVars == <<workflow, wordpress, history>>

appVars ==
  <<inflight, workflow, wordpress, history, sourceItems, applied>>

-----------------------------------------------------------------------------
(* Bounds of the exploration *)

\* the clock stops advancing at MaxTime
MaxTime == 3

\* windowMs of every configured service (60 * 1000 in the source), in ticks
WindowMs == 2

\* one second (1000 in the source), in ticks
MsPerSecond == 2

\* the seconds reported when no reset time is known
DefaultWaitSeconds == 60

\* maxRequests of the 'perplexity' service (20 in the source)
PerplexityMax == 1

\* maxRequests of the 'claude' service (50 in the source)
ClaudeMax == 1

\* maxRequests of the 'default' configuration (100 in the source)
DefaultMax == 2

\* the requests the server handles at the same time
MaxInFlight == 2

\* the length of the source list of the content input
MaxSources == 2

\* the (service, identifier) pairs that place requests: two clients of a
\* configured service and one client of a service that has no configuration
\* of its own
Callers == {<<"perplexity", "a">>, <<"perplexity", "b">>, <<"imagen", "a">>}

-----------------------------------------------------------------------------
(* RateLimiter: configuration and pure helpers *)

\* this.configs as the constructor leaves it
configs ==
  [perplexity |-> [maxRequests |-> PerplexityMax, windowMs |-> WindowMs],
   claude     |-> [maxRequests |-> ClaudeMax,     windowMs |-> WindowMs],
   default    |-> [maxRequests |-> DefaultMax,    windowMs |-> WindowMs]]

\* this.configs.get(service) || this.configs.get('default')!
ConfigOf(service) ==
  IF service \in DOMAIN configs THEN configs[service] ELSE configs["default"]

KeyOfService(service, identifier) == <<service, "">>

\* const key = `${service}:${identifier}`
Key(service, identifier) == <<service, identifier>>

\* key.split(':')[0]
ServiceOfKey(key) == key[1]

\* The route handlers.  service is the first argument of withRateLimit, or
\* "" for a handler that does not call it.  A handler validates the main
\* field of the body (sources, sourceAnalysis, blogGeneration, keyword,
\* credentials, url, file) and, if second is TRUE, a detail of it as well
\* (topic, title and content, keyword length, file type).
AnalyzeRoute ==
  [name |-> "analyze", service |-> "perplexity", second |-> TRUE]

GenerateRoute == [name |-> "generate", service |-> "claude", second |-> TRUE]

ImagenRoute == [name |-> "imagen", service |-> "imagen", second |-> TRUE]

SeoRoute ==
  [name |-> "seo-analyze", service |-> "seo-analysis", second |-> TRUE]

PublishRoute == [name |-> "publish", service |-> "wordpress", second |-> TRUE]

SitesRoute == [name |-> "sites", service |-> "", second |-> FALSE]

JinaUrlRoute == [name |-> "jina-url", service |-> "", second |-> FALSE]

JinaPdfRoute == [name |-> "jina-pdf", service |-> "", second |-> TRUE]

\* the handlers that call an external service
Routes ==
  {AnalyzeRoute, GenerateRoute, ImagenRoute, SeoRoute, PublishRoute,
   SitesRoute, JinaUrlRoute, JinaPdfRoute}

\* request.headers.get('x-forwarded-for') || ... || 'unknown'
ClientIP == "a"

RouteCallers == {<<r.service, ClientIP>> : r \in {x \in Routes : x.service # ""}}

AllKeys == {Key(c[1], c[2]) : c \in Callers \cup RouteCallers}

\* this.requests.get(key) || []
Get(map, key) == IF key \in DOMAIN map THEN map[key] ELSE << >>

\* this.requests.set(key, value)
MapSet(map, key, value) ==
  [k \in (DOMAIN map) \cup {key} |-> IF k = key THEN value ELSE map[k]]

\* this.requests.delete(key)
MapDelete(map, key) == [k \in (DOMAIN map) \ {key} |-> map[k]]

InWindowInclusive(timestamp, clock, windowMs) == clock - timestamp <= windowMs

\* the filter predicate: now - req.timestamp < config.windowMs
InWindow(timestamp, clock, windowMs) == clock - timestamp < windowMs

FilterNothing(reqs, clock, windowMs) == reqs

\* requests.filter(req => now - req.timestamp < config.windowMs)
FilterValid(reqs, clock, windowMs) ==
  SelectSeq(reqs, LAMBDA t : InWindow(t, clock, windowMs))

AtLimitOffByOne(reqs, config) == Len(reqs) > config.maxRequests

\* requests.length >= config.maxRequests
AtLimit(reqs, config) == Len(reqs) >= config.maxRequests

checkLimitPushFirst(map, service, identifier, clock) ==
  LET config == ConfigOf(service)
      key    == Key(service, identifier)
      reqs   == FilterValid(Get(map, key), clock, config.windowMs)
  IN  [allowed  |-> ~AtLimit(reqs, config),
       requests |-> MapSet(map, key, Append(reqs, clock))]

\* a limiter that counts a denied call in place of the oldest one
checkLimitDeniedCounts(map, service, identifier, clock) ==
  LET config == ConfigOf(service)
      key    == Key(service, identifier)
      reqs   == FilterValid(Get(map, key), clock, config.windowMs)
  IN  IF AtLimit(reqs, config)
        THEN [allowed |-> FALSE,
              requests |-> MapSet(map, key, Append(Tail(reqs), clock))]
        ELSE [allowed |-> TRUE,
              requests |-> MapSet(map, key, Append(reqs, clock))]

\* checkLimit: the result and the map it leaves behind
checkLimit(map, service, identifier, clock) ==
  LET config == ConfigOf(service)
      key    == Key(service, identifier)
      reqs   == FilterValid(Get(map, key), clock, config.windowMs)
  IN  IF AtLimit(reqs, config)
        THEN [allowed |-> FALSE, requests |-> MapSet(map, key, reqs)]
        ELSE [allowed |-> TRUE,
              requests |-> MapSet(map, key, Append(reqs, clock))]

\* getRemainingRequests
getRemainingRequests(map, service, identifier, clock) ==
  LET config == ConfigOf(service)
      valid  == FilterValid(Get(map, Key(service, identifier)), clock,
                            config.windowMs)
      d      == config.maxRequests - Len(valid)
  IN  IF d > 0 THEN d ELSE 0

-----------------------------------------------------------------------------
(* getResetTime, cleanup, withRateLimit *)

Null == [null |-> TRUE, value |-> 0]

Some(v) == [null |-> FALSE, value |-> v]

\* getResetTime
getResetTime(map, service, identifier) ==
  LET config == ConfigOf(service)
      reqs   == Get(map, Key(service, identifier))
  IN  IF Len(reqs) = 0 THEN Null ELSE Some(reqs[1] + config.windowMs)

\* Math.ceil(x / k) for k > 0
Ceil(x, k) == -((-x) \div k)

\* const waitTime = resetTime ? Math.ceil((resetTime - Date.now()) / 1000) : 60
waitSeconds(resetTime, clock) ==
  IF ~resetTime.null /\ resetTime.value # 0
    THEN Ceil(resetTime.value - clock, MsPerSecond)
    ELSE DefaultWaitSeconds

CleanupDeletesStale(reqs, validRequests) == Len(validRequests) < Len(reqs)

\* validRequests.length === 0: the key is deleted
CleanupDeletes(reqs, validRequests) == Len(validRequests) = 0

\* cleanup: every entry of the map is visited once
cleanup(map, clock) ==
  LET valid(k) == FilterValid(map[k], clock, ConfigOf(ServiceOfKey(k)).windowMs)
      kept     == {k \in DOMAIN map : ~CleanupDeletes(map[k], valid(k))}
  IN  [k \in kept |-> valid(k)]

\* waitForLimit, after a denied check: the delay of the timer it sets, or 0
\* when it loops without waiting
\*   const waitTime = config.windowMs - (Date.now() - oldestRequest.timestamp)
\*   if (waitTime > 0) setTimeout(resolve, Math.min(waitTime, 1000))
\*   else (empty list) setTimeout(resolve, 1000)
waitDelay(map, service, identifier, clock) ==
  LET config == ConfigOf(service)
      reqs   == Get(map, Key(service, identifier))
  IN  IF Len(reqs) > 0
        THEN LET waitTime == config.windowMs - (clock - reqs[1])
             IN  IF waitTime > 0
                   THEN (IF waitTime < MsPerSecond THEN waitTime
                         ELSE MsPerSecond)
                   ELSE 0
        ELSE MsPerSecond

-----------------------------------------------------------------------------
(* State *)

\* the body of a request: whether it has the main field the handler asks
\* for, and whether the detail the handler asks for is as it has to be
NoBody == [main |-> FALSE, detail |-> FALSE]

Bodies == [main : BOOLEAN, detail : BOOLEAN]

GoodBody == [main |-> TRUE, detail |-> TRUE]

\* a request: the route, who sent it (a handler of the editor, a handler of
\* the export panel, or any other client), whether it is on its way ("sent")
\* or its handler awaits the external call ("calling"), and whether the rate
\* limiter admitted it
NoRequest ==
  [pc |-> "", route |-> "", from |-> "", body |-> NoBody, admitted |-> FALSE]

\* the response a handler sends.  called: the external service was called for
\* the request; admitted: the rate limiter admitted it; thrown: the handler
\* threw; translated: handleAPIError made the response
NoResponse ==
  [route |-> "", from |-> "", body |-> NoBody, status |-> 0,
   called |-> FALSE, admitted |-> FALSE, thrown |-> FALSE,
   translated |-> FALSE]

\* what the step just taken did: the operation, its arguments and result,
\* and for a rejection by withRateLimit the reset time and the seconds of
\* the error message
Call(op, service, identifier, allowed) ==
  [op |-> op, service |-> service, identifier |-> identifier,
   allowed |-> allowed, resetTime |-> Null, seconds |-> 0, dropped |-> 0,
   response |-> NoResponse]

\* (for cleanup, dropped is the number of keys it deleted)

\* a call of checkLimit with result r; dropped is the number of stored
\* timestamps of the key that call did not keep
Checked(op, service, identifier, r) ==
  LET k == Key(service, identifier)
  IN  [Call(op, service, identifier, r.allowed) EXCEPT
         !.dropped = Len(Get(requests, k)) + (IF r.allowed THEN 1 ELSE 0)
                       - Len(Get(r.requests, k))]

NoCall == Call("none", "", "", FALSE)

\* the continuation of withRateLimit; request is the request it serves,
\* NoRequest for a caller outside the route handlers
WrlIdle ==
  [pc |-> "idle", service |-> "", identifier |-> "", request |-> NoRequest]

\* the admitted calls of key k that are less than a window old: the
\* reference bookkeeping the stored lists are compared with
Fresh(ts, clock, windowMs) == SelectSeq(ts, LAMBDA t : t + windowMs > clock)

Admit(k, allowed) ==
  recent' = IF allowed THEN [recent EXCEPT ![k] = Append(@, now)] ELSE recent

WaiterIdle ==
  [pc |-> "idle", service |-> "", identifier |-> "", wakeAt |-> 0,
   recorded |-> 0]

\* no continuation of an awaited call is pending, so a timer callback can run
NoContinuation == wrl.pc = "idle" /\ waiter.pc # "decide"


\* the workflow store before the editor has done anything.  sources and
\* topic: the source list is not empty, the trimmed topic is not empty; the
\* other fields are "null" or hold a value
WorkflowInitial ==
  [status |-> "idle", sources |-> FALSE, topic |-> FALSE,
   sourceAnalysis |-> "null", blogGeneration |-> "null",
   analysisError |-> "null", generationError |-> "null"]

\* a WordPress site, or null
NoSite == [null |-> TRUE, connected |-> FALSE]

Site(connected) == [null |-> FALSE, connected |-> connected]

\* initialState of the WordPress store
initialState ==
  [defaultSite |-> NoSite, customSite |-> NoSite, useCustomSite |-> FALSE,
   publishStatus |-> "idle"]

\* what the editor has done so far.  analyzeOk: an /api/analyze request
\* returned an ok response; generateOk: an /api/generate request sent after
\* that returned an ok response; unresearched: an /api/generate request was
\* sent before any ok response of /api/analyze; unready: a publish request
\* was sent while blogGeneration was null
NoHistory ==
  [analyzeOk |-> FALSE, generateOk |-> FALSE, unresearched |-> FALSE,
   unready |-> FALSE]

\* the content input with an empty source list and no extraction under way
NoSources == [list |-> << >>, extracting |-> EmptyBag]

\* no function was applied, and the input a function is about to be applied
\* to
NoApplication == [op |-> "none"]

Input(op, input) == [op |-> "input", of |-> op, input |-> input]

\* the state of the limiter, the server and the pages after construction
InitProgram ==
  /\ now = 0
  /\ requests = << >>
  /\ recent = [k \in AllKeys |-> << >>]
  /\ last = NoCall
  /\ wrl = WrlIdle
  /\ waiter = WaiterIdle
  /\ inflight = EmptyBag
  /\ workflow = WorkflowInitial
  /\ wordpress = initialState
  /\ history = NoHistory
  /\ sourceItems = NoSources

Init ==
  /\ InitProgram
  /\ applied = NoApplication

\* Date.now() advances
Tick ==
  /\ now < MaxTime
  /\ now' = now + 1
  /\ recent' = [k \in AllKeys |->
                  Fresh(recent[k], now + 1, ConfigOf(ServiceOfKey(k)).windowMs)]
  /\ last' = NoCall
  /\ UNCHANGED <<requests, wrl, waiter>>
  /\ UNCHANGED appVars

\* a direct call rateLimiter.checkLimit(service, identifier)
CheckLimit(service, identifier) ==
  LET r == checkLimit(requests, service, identifier, now)
  IN  /\ requests' = r.requests
      /\ Admit(Key(service, identifier), r.allowed)
      /\ last' = Checked("checkLimit", service, identifier, r)
      /\ UNCHANGED <<now, wrl, waiter>>
      /\ UNCHANGED appVars

\* the interval timer runs rateLimiter.cleanup(); a timer callback runs
\* only when no continuation of an awaited call is pending
Cleanup ==
  /\ NoContinuation
  /\ requests' = cleanup(requests, now)
  /\ last' = [Call("cleanup", "", "", FALSE) EXCEPT
                !.dropped = Cardinality((DOMAIN requests)
                                          \ DOMAIN cleanup(requests, now))]
  /\ UNCHANGED <<now, recent, wrl, waiter>>
  /\ UNCHANGED appVars

\* withRateLimit up to its await of checkLimit; an admitted call goes on to
\* run the operation
withRateLimitAwait(service, identifier, request) ==
  LET r == checkLimit(requests, service, identifier, now)
  IN  /\ wrl.pc = "idle"
      /\ requests' = r.requests
      /\ Admit(Key(service, identifier), r.allowed)
      /\ last' = Checked("withRateLimit", service, identifier, r)
      /\ wrl' = IF r.allowed THEN WrlIdle
                ELSE [pc |-> "denied", service |-> service,
                      identifier |-> identifier, request |-> request]
      /\ UNCHANGED <<now, waiter>>

\* a caller outside the route handlers
WithRateLimitCheck(service, identifier) ==
  /\ withRateLimitAwait(service, identifier, NoRequest)
  /\ UNCHANGED appVars

\* withRateLimit after the await: the reset time is read and the clock is
\* read again for the message of the error that is thrown
\* the statusCode of the APIError that handleAPIError returns
handleAPIError(error) ==
  IF error.kind = "APIError" THEN error.status
  ELSE IF error.kind = "response" THEN error.status
  ELSE IF error.kind = "request" THEN 503
  ELSE 500

\* the error withRateLimit throws on a rejection
RateLimitExceeded == [kind |-> "Error", status |-> 0]

\* the response of the catch block of a handler to that error
rejection(request) ==
  IF request = NoRequest THEN NoResponse
  ELSE [route |-> request.route, from |-> request.from,
        body |-> request.body,
        status |-> handleAPIError(RateLimitExceeded), called |-> FALSE,
        admitted |-> FALSE, thrown |-> TRUE, translated |-> TRUE]

withRateLimitThrow ==
  /\ wrl.pc = "denied"
  /\ LET resetTime == getResetTime(requests, wrl.service, wrl.identifier)
     IN  last' = [Call("reject", wrl.service, wrl.identifier, FALSE)
                    EXCEPT !.resetTime = resetTime,
                           !.seconds = waitSeconds(resetTime, now),
                           !.response = rejection(wrl.request)]
  /\ wrl' = WrlIdle
  /\ UNCHANGED <<now, requests, recent, waiter>>

\* the rejection of a caller outside the route handlers
WithRateLimitReject ==
  /\ wrl.request = NoRequest
  /\ withRateLimitThrow
  /\ UNCHANGED appVars

\* one turn of the loop of waitForLimit: while (!(await this.checkLimit(..)))
\* an admitted call returns, a denied one goes on after the await
WaitCheck(w) ==
  LET r     == checkLimit(requests, w.service, w.identifier, now)
      k     == Key(w.service, w.identifier)
      added == Len(Get(r.requests, k))
                 - Len(FilterValid(Get(requests, k), now,
                                   ConfigOf(w.service).windowMs))
  IN  /\ requests' = r.requests
      /\ Admit(k, r.allowed)
      /\ last' = Checked("waitForLimit", w.service, w.identifier, r)
      /\ waiter' = [w EXCEPT !.pc = IF r.allowed THEN "done" ELSE "decide",
                             !.recorded = @ + added]
      /\ UNCHANGED <<now, wrl>>
      /\ UNCHANGED appVars

\* a call rateLimiter.waitForLimit(service, identifier) and its first check
WaitForLimit(service, identifier) ==
  /\ waiter.pc = "idle"
  /\ WaitCheck([WaiterIdle EXCEPT !.service = service,
                                  !.identifier = identifier])

\* after the await of a denied check: set the timer, or check again at once
WaitDecide ==
  /\ waiter.pc = "decide"
  /\ LET d == waitDelay(requests, waiter.service, waiter.identifier, now)
     IN  IF d > 0
           THEN /\ waiter' = [waiter EXCEPT !.pc = "sleep", !.wakeAt = now + d]
                /\ last' = NoCall
                /\ UNCHANGED <<now, requests, recent, wrl>>
                /\ UNCHANGED appVars
           ELSE WaitCheck(waiter)

\* the timer fires, not before its delay has passed, and the loop checks again
WaitWake ==
  /\ waiter.pc = "sleep"
  /\ now >= waiter.wakeAt
  /\ NoContinuation
  /\ WaitCheck([waiter EXCEPT !.wakeAt = 0])

\* waitForLimit has returned to its caller
WaitReturn ==
  /\ waiter.pc = "done"
  /\ waiter' = WaiterIdle
  /\ last' = NoCall
  /\ UNCHANGED <<now, requests, recent, wrl>>
  /\ UNCHANGED appVars

\* the callers met where waitForLimit is used: one client of each service
WaitCallers == {c \in Callers : c[2] = "a"}

WaitStep ==
  \/ \E c \in WaitCallers : WaitForLimit(c[1], c[2])
  \/ WaitDecide
  \/ WaitWake
  \/ WaitReturn

LimiterStep ==
  \/ Tick
  \/ \E c \in Callers : CheckLimit(c[1], c[2])
  \/ Cleanup
  \/ \E c \in Callers : WithRateLimitCheck(c[1], c[2])
  \/ WithRateLimitReject

Next == LimiterStep

Spec == Init /\ [][Next]_vars

\* The limiter with one caller of waitForLimit.  While that caller waits,
\* no other caller places a request under its key; the event loop runs
\* every continuation and every timer that is due, and the clock advances.
OtherCheckLimit(service, identifier) ==
  /\ \/ waiter.pc = "idle"
     \/ Key(service, identifier) # Key(waiter.service, waiter.identifier)
  /\ CheckLimit(service, identifier)

LimiterWaitStep ==
  \/ Tick
  \/ \E c \in WaitCallers : OtherCheckLimit(c[1], c[2])
  \/ Cleanup
  \/ WaitStep

NextWait == LimiterWaitStep

\* The limiter with direct callers, the cleanup timer and one caller of
\* waitForLimit, in any interleaving
CallsStep ==
  \/ Tick
  \/ \E c \in Callers : CheckLimit(c[1], c[2])
  \/ Cleanup
  \/ WaitStep

NextCalls == CallsStep

SpecCalls == Init /\ [][NextCalls]_vars

SpecWait ==
  /\ Init
  /\ [][NextWait]_vars
  /\ WF_vars(Tick)
  /\ WF_vars(WaitDecide)
  /\ WF_vars(WaitWake)

-----------------------------------------------------------------------------
(* The editor page *)

\* response.ok of fetch
Ok(response) == response.status >= 200 /\ response.status < 300

canAnalyzeAnyStatus(w) == w.sources /\ w.topic

canAnalyze(w) == w.sources /\ w.topic /\ w.status = "idle"

canGenerateAnyStatus(w) == w.sourceAnalysis # "null"

canGenerate(w) ==
  w.sourceAnalysis # "null" /\ w.analysisError = "null" /\ w.status = "idle"

getCurrentSite(wp) == IF wp.useCustomSite THEN wp.customSite ELSE wp.defaultSite

canPublishAnyStatus(wp) ==
  ~getCurrentSite(wp).null /\ getCurrentSite(wp).connected

canPublish(wp) ==
  /\ ~getCurrentSite(wp).null
  /\ getCurrentSite(wp).connected
  /\ wp.publishStatus = "idle"

hasBlogAlways(w) == TRUE

\* the check of blogGeneration at the head of both publish handlers, which
\* is also the condition under which the preview and the export panel are
\* rendered
hasBlog(w) == w.blogGeneration # "null"

\* a continuation that lets the user try again after a failure
AnalyzeContinuesToIdle(response) ==
  /\ workflow' =
       IF Ok(response)
         THEN [workflow EXCEPT !.sourceAnalysis = "analysis",
                               !.status = "idle"]
         ELSE [workflow EXCEPT !.analysisError = "error", !.status = "idle"]
  /\ history' = IF Ok(response) THEN [history EXCEPT !.analyzeOk = TRUE]
                ELSE history
  /\ UNCHANGED wordpress

\* handleAnalyzeSources after its fetch
AnalyzeContinues(response) ==
  /\ workflow' =
       IF Ok(response)
         THEN [workflow EXCEPT !.sourceAnalysis = "analysis",
                               !.status = "idle"]
         ELSE [workflow EXCEPT !.analysisError = "error", !.status = "error"]
  /\ history' = IF Ok(response) THEN [history EXCEPT !.analyzeOk = TRUE]
                ELSE history
  /\ UNCHANGED wordpress

\* handleGenerateBlog after its fetch
GenerateContinues(response) ==
  /\ workflow' =
       IF Ok(response)
         THEN [workflow EXCEPT !.blogGeneration = "blog",
                               !.status = "completed"]
         ELSE [workflow EXCEPT !.generationError = "error",
                               !.status = "error"]
  /\ history' =
       IF Ok(response)
         THEN [history EXCEPT !.generateOk = ~history.unresearched]
         ELSE history
  /\ UNCHANGED wordpress

\* handleWordPressExport and publishToWordPress after their fetch: the body
\* of every response that is not a success has success: false
PublishContinues(response) ==
  /\ wordpress' = [wordpress EXCEPT !.publishStatus =
                     IF Ok(response) THEN "success" ELSE "error"]
  /\ UNCHANGED <<workflow, history>>

\* testCustomSite after its fetch
TestContinues(response) ==
  /\ wordpress' =
       IF Ok(response)
         THEN [wordpress EXCEPT !.customSite = Site(TRUE),
                                !.publishStatus = "idle"]
         ELSE [wordpress EXCEPT !.publishStatus = "error"]
  /\ UNCHANGED <<workflow, history>>

\* a response reaches the handler that awaits it
Deliver(response) ==
  /\ UNCHANGED inputVars
  /\ IF response.from = "client" THEN UNCHANGED editorVars
     ELSE IF response.route = "analyze" THEN AnalyzeContinues(response)
     ELSE IF response.route = "generate" THEN GenerateContinues(response)
     ELSE IF response.route = "publish" THEN PublishContinues(response)
     ELSE TestContinues(response)

-----------------------------------------------------------------------------
(* The route handlers *)

RouteByName(name) == CHOOSE r \in Routes : r.name = name

\* what a handler can throw: an APIError, an axios error with a response,
\* an axios error without one, any other error
Errors ==
  {[kind |-> "APIError", status |-> 503],
   [kind |-> "response", status |-> 429],
   [kind |-> "response", status |-> 404],
   [kind |-> "request", status |-> 0],
   [kind |-> "Error", status |-> 0]}

\* how the external calls of a handler can end: with a result, with a result
\* that reports a failure, or with an error
Outcomes ==
  {[kind |-> "ok"], [kind |-> "failure"]} \cup
  {[kind |-> "throws", error |-> e] : e \in Errors}

\* the response of a handler to the outcome of its call.  The site test
\* answers 400 to a failed connection test and keeps the errors of the
\* requests that follow it to itself; the publish route answers 500 to a
\* result without success; every other result is a success and every other
\* error goes to the catch block of the handler.
RouteResponse(route, outcome) ==
  IF outcome.kind = "ok"
    THEN [status |-> 200, thrown |-> FALSE, translated |-> FALSE]
  ELSE IF outcome.kind = "failure"
    THEN [status |-> IF route = SitesRoute THEN 400
                     ELSE IF route = PublishRoute THEN 500 ELSE 200,
          thrown |-> FALSE, translated |-> FALSE]
  ELSE IF route = SitesRoute
    THEN [status |-> 200, thrown |-> TRUE, translated |-> FALSE]
  ELSE [status |-> handleAPIError(outcome.error), thrown |-> TRUE,
        translated |-> TRUE]

ValidateFirstField(route, body) == body.main

\* the validation at the head of a handler
Validate(route, body) == body.main /\ (route.second => body.detail)

\* the request the handler of `route` works on
Request(route, from, body, admitted) ==
  [pc |-> "calling", route |-> route.name, from |-> from, body |-> body,
   admitted |-> admitted]

\* a request on its way to the server
Sent(route, from, body) ==
  [Request(route, from, body, FALSE) EXCEPT !.pc = "sent"]

\* the response to request r
Response(r, status, called, thrown, translated) ==
  [route |-> r.route, from |-> r.from, body |-> r.body, status |-> status,
   called |-> called, admitted |-> r.admitted, thrown |-> thrown,
   translated |-> translated]

Responded(response) == [NoCall EXCEPT !.response = response]

\* the response of a handler to a body that fails its validation
Invalid(route, from, body) ==
  Response(Request(route, from, body, FALSE), 400, FALSE, FALSE, FALSE)

\* the handler of `route` runs up to its first await, `others` being the
\* requests in flight beside the one it handles: a body that fails the
\* validation is answered with 400; a handler that uses the rate limiter
\* awaits checkLimit and runs the operation when it is admitted; any other
\* handler calls the external service at once
Handle(route, from, body, others) ==
  /\ NoContinuation
  /\ IF ~Validate(route, body)
       THEN /\ last' = Responded(Invalid(route, from, body))
            /\ Deliver(Invalid(route, from, body))
            /\ inflight' = others
            /\ UNCHANGED <<now, requests, recent, wrl, waiter>>
     ELSE IF route.service = ""
       THEN /\ inflight' =
                 others (+) SetToBag({Request(route, from, body, FALSE)})
            /\ last' = NoCall
            /\ UNCHANGED <<now, requests, recent, wrl, waiter>>
            /\ UNCHANGED <<editorVars, inputVars>>
     ELSE LET r == checkLimit(requests, route.service, ClientIP, now)
          IN  /\ withRateLimitAwait(route.service, ClientIP,
                                    Request(route, from, body, FALSE))
              /\ inflight' =
                   IF r.allowed
                     THEN others
                            (+) SetToBag({Request(route, from, body, TRUE)})
                     ELSE others
              /\ UNCHANGED <<editorVars, inputVars>>

\* a request of some client arrives
RouteReceive(route, from, body) ==
  /\ BagCardinality(inflight) < MaxInFlight
  /\ Handle(route, from, body, inflight)

\* a request the editor page has sent arrives
RouteReceiveSent(r) ==
  /\ BagIn(r, inflight)
  /\ r.pc = "sent"
  /\ Handle(RouteByName(r.route), r.from, r.body, inflight (-) SetToBag({r}))

\* withRateLimit throws for the request it denied and the catch block of the
\* handler answers
RouteReject ==
  /\ wrl.request # NoRequest
  /\ withRateLimitThrow
  /\ Deliver(rejection(wrl.request))
  /\ UNCHANGED inflight

\* the external call of request r ends and the handler answers
RouteCallReturns(r, outcome) ==
  /\ BagIn(r, inflight)
  /\ r.pc = "calling"
  /\ wrl.pc = "idle"
  /\ LET rr == RouteResponse(RouteByName(r.route), outcome)
         response == Response(r, rr.status, TRUE, rr.thrown, rr.translated)
     IN  /\ last' = Responded(response)
         /\ Deliver(response)
  /\ inflight' = inflight (-) SetToBag({r})
  /\ UNCHANGED <<now, requests, recent, wrl, waiter>>

\* The server with clients that send any request to any route
RouteStep ==
  \/ \E route \in Routes, body \in Bodies : RouteReceive(route, "client", body)
  \/ RouteReject
  \/ \E r \in BagToSet(inflight), outcome \in Outcomes :
       RouteCallReturns(r, outcome)

NextRoutes == RouteStep

SpecRoutes == Init /\ [][NextRoutes]_vars

-----------------------------------------------------------------------------
(* The handlers of the editor page *)

\* fetch(route): the request leaves the page
Fetch(route, from, body) ==
  /\ BagCardinality(inflight) < MaxInFlight
  /\ inflight' = inflight (+) SetToBag({Sent(route, from, body)})
  /\ last' = NoCall
  /\ UNCHANGED <<now, requests, recent, wrl, waiter>>
  /\ UNCHANGED inputVars

\* the user edits the sources or the topic; the inputs are disabled while
\* the workflow is analyzing or generating
SetInputs(sources, topic) ==
  /\ workflow.status \notin {"analyzing", "generating"}
  /\ workflow' = [workflow EXCEPT !.sources = sources, !.topic = topic]
  /\ last' = NoCall
  /\ UNCHANGED <<now, requests, recent, wrl, waiter, inflight, wordpress,
                 history>>
  /\ UNCHANGED inputVars

handleAnalyzeSources ==
  /\ canAnalyze(workflow)
  /\ workflow' = [workflow EXCEPT !.status = "analyzing",
                                  !.analysisError = "null"]
  /\ Fetch(AnalyzeRoute, "editor",
           [main |-> workflow.sources, detail |-> workflow.topic])
  /\ UNCHANGED <<wordpress, history>>

handleGenerateBlog ==
  /\ canGenerate(workflow)
  /\ workflow.sourceAnalysis # "null"
  /\ workflow' = [workflow EXCEPT !.status = "generating",
                                  !.generationError = "null"]
  /\ Fetch(GenerateRoute, "editor",
           [main |-> workflow.sourceAnalysis # "null",
            detail |-> workflow.topic])
  /\ history' = [history EXCEPT !.unresearched = @ \/ ~history.analyzeOk]
  /\ UNCHANGED wordpress

\* the two publish handlers: handleWordPressExport of the editor and
\* publishToWordPress of the export panel
Publish(from) ==
  /\ hasBlog(workflow)
  /\ canPublish(wordpress)
  /\ wordpress' = [wordpress EXCEPT !.publishStatus = "publishing"]
  /\ Fetch(PublishRoute, from,
           [main |-> workflow.blogGeneration # "null", detail |-> TRUE])
  /\ history' = [history EXCEPT
                   !.unready = @ \/ workflow.blogGeneration = "null"]
  /\ UNCHANGED workflow

handleWordPressExport == Publish("editor")

\* the export panel is rendered only with a blogGeneration
publishToWordPress == Publish("panel")

\* testCustomSite of the export panel, with complete credentials; its button
\* is rendered for the custom site and is disabled while a test is running
testCustomSite ==
  /\ hasBlog(workflow)
  /\ wordpress.useCustomSite
  /\ wordpress.publishStatus # "testing"
  /\ wordpress' = [wordpress EXCEPT !.publishStatus = "testing"]
  /\ Fetch(SitesRoute, "panel", GoodBody)
  /\ UNCHANGED <<workflow, history>>

\* loadDefaultSite, on mount of the editor and of the export panel, when the
\* server reports a default site that passed its connection test
loadDefaultSite ==
  /\ wordpress' = [wordpress EXCEPT !.defaultSite = Site(TRUE)]
  /\ last' = NoCall
  /\ UNCHANGED <<now, requests, recent, wrl, waiter, inflight, workflow,
                 history>>
  /\ UNCHANGED inputVars

\* the switch between the default and the custom site in the export panel
setUseCustomSite(useCustomSite) ==
  /\ hasBlog(workflow)
  /\ wordpress' = [wordpress EXCEPT !.useCustomSite = useCustomSite]
  /\ last' = NoCall
  /\ UNCHANGED <<now, requests, recent, wrl, waiter, inflight, workflow,
                 history>>
  /\ UNCHANGED inputVars

EditorStep ==
  \/ \E sources \in BOOLEAN, topic \in BOOLEAN : SetInputs(sources, topic)
  \/ handleAnalyzeSources
  \/ handleGenerateBlog
  \/ handleWordPressExport
  \/ publishToWordPress
  \/ testCustomSite
  \/ loadDefaultSite
  \/ \E useCustomSite \in BOOLEAN : setUseCustomSite(useCustomSite)

\* the outcomes the editor page can tell apart: the response is ok or not
EditorOutcomes ==
  {[kind |-> "ok"], [kind |-> "failure"],
   [kind |-> "throws", error |-> [kind |-> "Error", status |-> 0]]}

\* The editor page, the server that handles its requests, and another
\* client of the writing route
NextEditor ==
  \/ EditorStep
  \/ \E r \in BagToSet(inflight) : RouteReceiveSent(r)
  \/ \E body \in Bodies : RouteReceive(GenerateRoute, "client", body)
  \/ RouteReject
  \/ \E r \in BagToSet(inflight), outcome \in EditorOutcomes :
       RouteCallReturns(r, outcome)

SpecEditor == Init /\ [][NextEditor]_vars

-----------------------------------------------------------------------------
(* The source list of the content input *)

\* what a source can hold: 0 for nothing yet, otherwise a text
Contents == {1, 2}

\* the rows of the URL list and the names of the files the user drops
UrlRows == {0}

FileNames == {"a.txt"}

\* `text-${Date.now()}`, `url-${Date.now()}-${index}` and
\* `file-${Date.now()}-${file.name}`
SourceId(type, clock, tag) == <<type, clock, tag>>

NewSource(id, type, status, content) ==
  [id |-> id, type |-> type, status |-> status, content |-> content,
   error |-> FALSE]

\* prev => [...prev, newSource]
AddSource(list, source) == Append(list, source)

\* prev => prev.filter(source => source.id !== id)
RemoveById(list, id) == SelectSeq(list, LAMBDA source : source.id # id)

\* prev => prev.map(source => source.id === sourceId ? {...} : source)
UpdateById(list, id, status, content, error) ==
  [i \in 1..Len(list) |->
     IF list[i].id = id
       THEN [list[i] EXCEPT !.status = status,
                            !.content = IF status = "success" THEN content
                                        ELSE @,
                            !.error = error]
       ELSE list[i]]

\* the effect that follows every change of the list: the store gets the
\* contents of the sources with status 'success'
ValidSources(list) == \E i \in 1..Len(list) : list[i].status = "success"

\* a handler of the content input has changed the list, or started or ended
\* an extraction
SourcesBecome(list, extracting) ==
  /\ sourceItems' = [list |-> list, extracting |-> extracting]
  /\ workflow' = [workflow EXCEPT !.sources = ValidSources(list)]
  /\ last' = NoCall
  /\ UNCHANGED <<now, requests, recent, wrl, waiter, inflight, wordpress,
                 history, applied>>

addTextSource(content) ==
  /\ Len(sourceItems.list) < MaxSources
  /\ SourcesBecome(
       AddSource(sourceItems.list,
                 NewSource(SourceId("text", now, 0), "text", "success",
                           content)),
       sourceItems.extracting)

\* a source is added with status 'processing' and its extraction starts
StartExtraction(list, id, type) ==
  /\ Len(list) < MaxSources
  /\ BagCardinality(sourceItems.extracting) < MaxSources
  /\ SourcesBecome(AddSource(list, NewSource(id, type, "processing", 0)),
                   sourceItems.extracting (+) SetToBag({id}))

\* addUrlSource up to its await
addUrlSource(index) ==
  StartExtraction(sourceItems.list, SourceId("url", now, index), "url")

\* one turn of the loop of handleFileUpload, up to its await
handleFileUpload(name) ==
  StartExtraction(sourceItems.list, SourceId("file", now, name), "file")

\* the extraction for sourceId has ended and its handler updates the list
ExtractionEnds(sourceId, status, content) ==
  /\ BagIn(sourceId, sourceItems.extracting)
  /\ SourcesBecome(UpdateById(sourceItems.list, sourceId, status, content,
                              status = "error"),
                   sourceItems.extracting (-) SetToBag({sourceId}))

removeSource(id) ==
  /\ \E i \in 1..Len(sourceItems.list) : sourceItems.list[i].id = id
  /\ SourcesBecome(RemoveById(sourceItems.list, id), sourceItems.extracting)

\* the Retry button of a URL source with status 'error'
RetrySource(i) ==
  /\ i \in 1..Len(sourceItems.list)
  /\ sourceItems.list[i].type = "url"
  /\ sourceItems.list[i].status = "error"
  /\ StartExtraction(RemoveById(sourceItems.list, sourceItems.list[i].id),
                     SourceId("url", now, now), "url")

\* Date.now() advances while the content input is used
SourcesTick ==
  /\ now < MaxTime
  /\ now' = now + 1
  /\ last' = NoCall
  /\ UNCHANGED <<requests, recent, wrl, waiter>>
  /\ UNCHANGED appVars

NextSources ==
  \/ SourcesTick
  \/ \E content \in Contents : addTextSource(content)
  \/ \E index \in UrlRows : addUrlSource(index)
  \/ \E name \in FileNames : handleFileUpload(name)
  \/ \E sourceId \in BagToSet(sourceItems.extracting), content \in Contents :
       \/ ExtractionEnds(sourceId, "success", content)
       \/ ExtractionEnds(sourceId, "error", 0)
  \/ \E i \in 1..MaxSources :
       /\ i <= Len(sourceItems.list)
       /\ removeSource(sourceItems.list[i].id)
  \/ \E i \in 1..MaxSources : RetrySource(i)

SpecSources == Init /\ [][NextSources]_vars

-----------------------------------------------------------------------------
(* Claims about the rate limiter *)

\* the number of timestamps of ts that are less than windowMs old at `clock`
CountWithin(ts, clock, windowMs) ==
  Cardinality({i \in 1..Len(ts) : clock - ts[i] < windowMs})

Stored(c) == Get(requests, Key(c[1], c[2]))

MaxOf(c) == ConfigOf(c[1]).maxRequests

WindowOf(c) == ConfigOf(c[1]).windowMs

CheckOps == {"checkLimit", "withRateLimit", "waitForLimit"}

LastCaller == <<last.service, last.identifier>>

\* C1: at every moment, every key holds at most maxRequests recorded
\* timestamps that are less than windowMs old.
C1_WindowCapacity ==
  \A c \in Callers : CountWithin(Stored(c), now, WindowOf(c)) <= MaxOf(c)

\* a key is denied at full capacity after earlier entries have expired
C1_Witness ==
  /\ last.op \in CheckOps
  /\ ~last.allowed
  /\ now >= WindowMs
  /\ CountWithin(Stored(LastCaller), now, WindowOf(LastCaller))
       = MaxOf(LastCaller)

\* C4: checkLimit admits a call exactly when fewer than maxRequests earlier
\* admitted calls of the key are less than windowMs old; so in every state
\* the next call of a key would be admitted exactly when that holds.
C4_ExactSlidingWindow ==
  /\ last.op \in CheckOps =>
       last.allowed =
         (CountWithin(recent[Key(last.service, last.identifier)], now,
                      WindowOf(LastCaller))
            - (IF last.allowed THEN 1 ELSE 0) < MaxOf(LastCaller))
  /\ \A c \in Callers :
       checkLimit(requests, c[1], c[2], now).allowed =
         (CountWithin(recent[Key(c[1], c[2])], now, WindowOf(c)) < MaxOf(c))

\* a key that was at its limit is admitted again once its oldest request is
\* a full window old
C4_Witness ==
  /\ last.op = "checkLimit"
  /\ last.allowed
  /\ last.dropped > 0
  /\ Len(Stored(LastCaller)) = MaxOf(LastCaller)
  /\ Stored(LastCaller)[1] + WindowOf(LastCaller) > now

\* C6: right after a call of checkLimit on a key, admitted or denied, the
\* stored list of the key holds no timestamp that is windowMs old or older.
C6_PrunedOnCheck ==
  last.op \in CheckOps =>
    /\ Key(last.service, last.identifier) \in DOMAIN requests
    /\ \A i \in 1..Len(Stored(LastCaller)) :
         now - Stored(LastCaller)[i] < WindowOf(LastCaller)

\* a check at a time when the key's earlier entries had expired
C6_Witness ==
  /\ last.op = "checkLimit"
  /\ last.dropped > 0
  /\ Len(Stored(LastCaller)) > 1

Unexpired(ts, clock, windowMs) ==
  SelectSeq(ts, LAMBDA t : clock - t < windowMs)

\* C9: cleanup deletes exactly the keys that hold no unexpired timestamp and
\* leaves every other key with exactly its unexpired timestamps; at the
\* time of the cleanup and at every later time, checkLimit and
\* getRemainingRequests give the results they would give without it.
C9_CleanupTransparent ==
  [][last'.op = "cleanup" =>
       /\ DOMAIN requests' =
            {k \in DOMAIN requests :
               CountWithin(requests[k], now,
                           ConfigOf(ServiceOfKey(k)).windowMs) > 0}
       /\ \A k \in DOMAIN requests' :
            requests'[k] = Unexpired(requests[k], now,
                                     ConfigOf(ServiceOfKey(k)).windowMs)
       /\ \A c \in Callers : \A t \in now..(MaxTime + WindowMs) :
            /\ checkLimit(requests', c[1], c[2], t).allowed
                 = checkLimit(requests, c[1], c[2], t).allowed
            /\ getRemainingRequests(requests', c[1], c[2], t)
                 = getRemainingRequests(requests, c[1], c[2], t)
            /\ Unexpired(Get(requests', Key(c[1], c[2])), t, WindowOf(c))
                 = Unexpired(Stored(c), t, WindowOf(c))]_vars

\* a cleanup has deleted a key and kept another
C9_Witness ==
  /\ last.op = "cleanup"
  /\ last.dropped > 0
  /\ DOMAIN requests # {}
  /\ \E c \in Callers : getRemainingRequests(requests, c[1], c[2], now) = 0

\* C10: when withRateLimit rejects a request, the reset time of the key is
\* its oldest timestamp inside the window plus windowMs and lies after the
\* clock reading the message is computed from, so that the seconds reported
\* are at least 1 and at most windowMs / 1000 (rounded up); getResetTime is
\* null exactly for a key with no stored timestamp, and then 60 seconds are
\* reported.
C10_ResetTimeOnReject ==
  /\ \A c \in Callers :
       getResetTime(requests, c[1], c[2]).null = (Len(Stored(c)) = 0)
  /\ last.op = "reject" =>
       IF last.resetTime.null
         THEN last.seconds = DefaultWaitSeconds
         ELSE /\ \E i \in 1..Len(Stored(LastCaller)) :
                   /\ now - Stored(LastCaller)[i] < WindowOf(LastCaller)
                   /\ \A j \in 1..Len(Stored(LastCaller)) :
                        now - Stored(LastCaller)[j] < WindowOf(LastCaller)
                          => Stored(LastCaller)[i] <= Stored(LastCaller)[j]
                   /\ last.resetTime.value
                        = Stored(LastCaller)[i] + WindowOf(LastCaller)
              /\ last.resetTime.value > now
              /\ last.seconds >= 1
              /\ last.seconds <= Ceil(WindowOf(LastCaller), MsPerSecond)

WaiterKey == Key(waiter.service, waiter.identifier)

WaiterWaiting == waiter.pc \in {"decide", "sleep"}

\* C8: a call of waitForLimit that still has a whole window of clock ahead
\* of it returns, given that the clock advances and nobody else places
\* requests under its key while it waits; when it has returned, its checks
\* have recorded exactly one timestamp, and the key holds at most
\* maxRequests timestamps inside the window.
C8_WaitForLimitReturns ==
  /\ [](waiter.pc = "done" =>
         /\ waiter.recorded = 1
         /\ CountWithin(Get(requests, WaiterKey), now,
                        ConfigOf(waiter.service).windowMs)
              <= ConfigOf(waiter.service).maxRequests)
  /\ ((WaiterWaiting /\ now + ConfigOf(waiter.service).windowMs <= MaxTime)
        ~> (waiter.pc = "done"))

\* a caller was denied, waited for a slot, and has returned
C8_Witness ==
  /\ waiter.pc = "done"
  /\ waiter.recorded = 1
  /\ last.op = "waitForLimit"
  /\ last.dropped > 0
  /\ Len(Get(requests, WaiterKey)) = ConfigOf(waiter.service).maxRequests

-----------------------------------------------------------------------------
(* Claims about the pipeline *)

InFlight == BagToSet(inflight)

FromPage == {"editor", "panel"}

\* C3: every route handler that calls an external service makes the call
\* only for a request the rate limiter admitted, and every error a handler
\* throws becomes an error response made by handleAPIError.
C3_EveryStepGuarded ==
  /\ \A r \in InFlight : r.pc = "calling" => r.admitted
  /\ last.response.called => last.response.admitted
  /\ last.response.thrown =>
       last.response.translated /\ last.response.status >= 400

\* C2: blogGeneration holds an article only if a request to /api/analyze
\* and, sent after its response, a request to /api/generate both returned an
\* ok response; and no publish request has left the page while
\* blogGeneration was null.
C2_ExportAfterBothStages ==
  /\ workflow.blogGeneration # "null" =>
       history.analyzeOk /\ history.generateOk
  /\ ~history.unready
  /\ \A r \in InFlight :
       r.route = "publish" /\ r.from \in FromPage =>
         workflow.blogGeneration # "null"

\* the article is there and a publish request of the page is with the server
C2_Witness ==
  /\ workflow.blogGeneration # "null"
  /\ wordpress.publishStatus = "publishing"
  /\ \E r \in InFlight :
       r.route = "publish" /\ r.from \in FromPage /\ r.pc = "calling"

\* a step in which a request to /api/generate leaves the editor
GenerateSent ==
  \E body \in Bodies :
    CopiesIn(Sent(GenerateRoute, "editor", body), inflight')
      > CopiesIn(Sent(GenerateRoute, "editor", body), inflight)

\* C5: a request to /api/generate leaves the editor only when sourceAnalysis
\* is set, an /api/analyze request has returned an ok response, analysisError
\* is null and status is 'idle'; no generate request was ever sent before a
\* successful analysis; and the generate route answers a body without
\* sourceAnalysis with 400 and without a call of the writing service.
C5_ResearchBeforeWriting ==
  /\ [](~history.unresearched)
  /\ [](last.response.route = "generate" /\ ~last.response.body.main =>
          last.response.status = 400 /\ ~last.response.called)
  /\ [][GenerateSent =>
          /\ workflow.sourceAnalysis # "null"
          /\ history.analyzeOk
          /\ workflow.analysisError = "null"
          /\ workflow.status = "idle"]_vars

\* the writing service is being called for a request of the editor
C5_Witness ==
  /\ workflow.status = "generating"
  /\ history.analyzeOk
  /\ \E r \in InFlight :
       r.route = "generate" /\ r.from = "editor" /\ r.pc = "calling"

-----------------------------------------------------------------------------
(* Claims about the content input *)

\* a source stays as it is, or leaves 'processing' for 'success' or 'error'
SameOrFinished(old, new) ==
  \/ new = old
  \/ /\ old.status = "processing"
     /\ new.status \in {"success", "error"}
     /\ new.id = old.id
     /\ new.type = old.type

\* C11: in every step of the content input the source list changes in one of
\* these ways only: sources that are 'processing' become 'success' or
\* 'error'; a source is appended; sources are removed, and a new one may be
\* appended after them.  A source that is 'success' or 'error' is never
\* changed.
C11_SourcesNeverMutated ==
  [][LET old == sourceItems.list
         new == sourceItems'.list
     IN  \/ /\ Len(new) = Len(old)
            /\ \A i \in 1..Len(old) : SameOrFinished(old[i], new[i])
         \/ /\ Len(new) = Len(old) + 1
            /\ \A i \in 1..Len(old) : new[i] = old[i]
         \/ \E i \in 1..Len(old) :
              \/ new = RemoveById(old, old[i].id)
              \/ /\ Len(new) >= 1
                 /\ SubSeq(new, 1, Len(new) - 1) = RemoveById(old, old[i].id)
                 /\ new[Len(new)].status = "processing"]_vars

-----------------------------------------------------------------------------
(* The research service (lib/perplexity.ts) behind /api/analyze *)

\* the length of the longest content of an answer of the research service
MaxContent == 4

\* The pieces a content is made of: the braces, plain text that is not JSON
\* ("x"), and the members of an object: keyInsights with an array ("k"),
\* keyInsights with a value that is not an array ("n"), another member
\* ("m").  The commas between members are left out.
Tokens == {"{", "}", "k", "n", "m", "x"}

Members == {"k", "n", "m"}

ContentsOfAnswer == UNION {[1..n -> Tokens] : n \in 0..MaxContent}

\* how the HTTP call can end: it fails (network error, status outside 2xx),
\* or it gives data without choices, with an empty list of choices or with a
\* content
HttpAnswers ==
  {[kind |-> "error"], [kind |-> "data", choices |-> "missing"],
   [kind |-> "data", choices |-> "empty"]} \cup
  {[kind |-> "data", choices |-> "content", content |-> c] :
     c \in ContentsOfAnswer}

\* the fallback analysis, an analysis read from the answer, and none
Fallback == [from |-> "fallback", mainThemes |-> TRUE]

Parsed(mainThemes) == [from |-> "service", mainThemes |-> mainThemes]

NoAnalysis == [from |-> "none", mainThemes |-> FALSE]

\* content.match(/\{[\s\S]*\}/): from the first "{" to the last "}" after it,
\* << >> when there is no match
jsonMatch(content) ==
  LET opens == {i \in 1..Len(content) : content[i] = "{"}
      closes == {i \in 1..Len(content) : content[i] = "}"}
  IN  IF opens = {} THEN << >>
      ELSE LET first == CHOOSE i \in opens : \A j \in opens : i <= j
               after == {j \in closes : j > first}
           IN  IF after = {} THEN << >>
               ELSE SubSeq(content, first,
                           CHOOSE j \in after : \A l \in after : l <= j)

\* JSON.parse accepts text: an object, that is members between two braces
IsObject(text) ==
  /\ Len(text) >= 2
  /\ text[1] = "{"
  /\ text[Len(text)] = "}"
  /\ \A i \in 2..(Len(text) - 1) : text[i] \in Members

\* the value an object has for keyInsights: that of its last member of the
\* name
keyInsights(text) ==
  LET named == {i \in 1..Len(text) : text[i] \in {"k", "n"}}
  IN  IF named = {} THEN "undefined"
      ELSE IF text[CHOOSE i \in named : \A j \in named : j <= i] = "k"
        THEN "array"
      ELSE "text"

NeverInvalid(text) == FALSE

\* the validation of the required field
InvalidKeyInsights(text) == keyInsights(text) # "array"

\* JSON.parse and the validation; NoAnalysis when either throws
parse(text) ==
  IF ~IsObject(text) \/ InvalidKeyInsights(text) THEN NoAnalysis
  ELSE Parsed(\E i \in 1..Len(text) : text[i] = "m")

parseAnalysisResponse(data) ==
  IF data.choices = "missing" THEN Fallback
  ELSE LET content == IF data.choices = "empty" THEN << >> ELSE data.content
           match == jsonMatch(content)
       IN  IF match = << >> THEN Fallback
           ELSE IF parse(match) = NoAnalysis THEN Fallback
           ELSE parse(match)

\* analyzeSources: the request throws, or its data is parsed
analyzeSources(http) ==
  IF http.kind = "error" THEN [thrown |-> TRUE]
  ELSE [thrown |-> FALSE, analysis |-> parseAnalysisResponse(http)]

\* what the source manager answers for the sources of a request:
\* processSources reports success or not, or throws, and for processed
\* sources validateSourcesForAnalysis reports valid or not, or throws
SourceResults ==
  {[processed |-> "success", validation |-> v] :
     v \in {"valid", "invalid", "throws"}} \cup
  {[processed |-> p, validation |-> "none"] : p \in {"failure", "throws"}}

SourcesProcessed(sources) == sources.processed = "success"

\* both checks that stand before the call of the research service
SourcesOk(sources) ==
  sources.processed = "success" /\ sources.validation = "valid"

\* the calls analyzeSourcesWithPerplexity makes, in order
CallsMade(sources) ==
  <<"processSources">>
    \o (IF sources.processed = "success"
          THEN <<"validateSourcesForAnalysis">> ELSE << >>)
    \o (IF SourcesOk(sources) THEN <<"analyzeSources">> ELSE << >>)

\* the operation /api/analyze runs under withRateLimit for an admitted
\* request and the answer of the route to it: the sources are processed and
\* validated, and the research service is called when they are good
analyzeSourcesWithPerplexity(sources, http) ==
  /\ applied = Input("analyze", [sources |-> sources, http |-> http])
  /\ applied' =
       LET result == IF SourcesOk(sources) THEN analyzeSources(http)
                     ELSE [thrown |-> TRUE]
           outcome == IF result.thrown
                        THEN [kind |-> "throws",
                              error |-> [kind |-> "Error", status |-> 0]]
                        ELSE [kind |-> "ok"]
           answer == RouteResponse(AnalyzeRoute, outcome)
       IN  [op |-> "analyze", sources |-> sources,
            calls |-> CallsMade(sources),
            called |-> SourcesOk(sources), http |-> http,
            status |-> answer.status, success |-> ~result.thrown,
            analysis |-> IF result.thrown THEN NoAnalysis
                         ELSE result.analysis]
  /\ UNCHANGED <<now, requests, recent, last, wrl, waiter, inflight>>
  /\ UNCHANGED <<editorVars, sourceItems>>

NextResearch ==
  /\ applied.op = "input"
  /\ applied.of = "analyze"
  /\ analyzeSourcesWithPerplexity(applied.input.sources, applied.input.http)

\* a request with any sources meets any answer of the research service
InitResearch ==
  /\ InitProgram
  /\ \E sources \in SourceResults, http \in HttpAnswers :
       applied = Input("analyze", [sources |-> sources, http |-> http])

SpecResearch == InitResearch /\ [][NextResearch]_vars

\* the content holds a JSON object whose keyInsights is an array
HoldsInsights(http) ==
  /\ http.choices = "content"
  /\ \E i, j \in 1..Len(http.content) :
       /\ IsObject(SubSeq(http.content, i, j))
       /\ keyInsights(SubSeq(http.content, i, j)) = "array"

\* C12: when the research service is called and answers with a content that
\* holds no JSON object with a keyInsights array, /api/analyze answers 200
\* with success and the fallback analysis; when the service was called the
\* route answers with an error only if the HTTP call failed.
C12_FallbackDefaults ==
  (applied.op = "analyze" /\ applied.called) =>
     /\ (applied.http.kind = "data" /\ ~HoldsInsights(applied.http))
          => /\ applied.status = 200
             /\ applied.success
             /\ applied.analysis = Fallback
     /\ (~applied.success \/ applied.status # 200)
          => applied.http.kind = "error"

C12_Witness ==
  /\ applied.op = "analyze"
  /\ applied.called
  /\ applied.http.kind = "data"
  /\ applied.http.choices = "content"
  /\ applied.http.content = <<"x", "{", "n", "}">>
  /\ applied.status = 200
  /\ applied.analysis = Fallback

-----------------------------------------------------------------------------
(* File upload: /api/upload and lib/file-processor.ts *)

\* the largest size validateFile accepts (10MB in the source), in size units
MaxFileSize == 2

\* the most files in one upload
MaxUpload == 2

\* the longest text of a file, in characters
MaxText == 2

\* GET /api/upload: supportedTypes
supportedTypes == {".pdf", ".txt", ".md"}

allowedTypes ==
  {"application/pdf", "text/plain", "text/markdown",
   "application/vnd.openxmlformats-officedocument.wordprocessingml.document",
   "application/msword"}

\* the type a client gives a file of an extension; for .md it is
\* text/markdown or, where the client knows no type for it, empty
TypesOf(ext) ==
  CASE ext = ".pdf" -> {"application/pdf"}
    [] ext = ".txt" -> {"text/plain"}
    [] ext = ".md" -> {"text/markdown", ""}
    [] ext = ".docx" ->
         {"application/vnd.openxmlformats-officedocument.wordprocessingml.document"}
    [] OTHER -> {"application/octet-stream"}

Extensions == supportedTypes \cup {".docx", ".bin"}

\* the text of a file: letters and white space
Texts == UNION {[1..n -> {"a", " "}] : n \in 0..MaxText}

Uploaded ==
  {f \in [ext : Extensions,
          type : allowedTypes \cup {"", "application/octet-stream"},
          size : 1..(MaxFileSize + 1), content : Texts] :
     f.type \in TypesOf(f.ext)}

Uploads == UNION {[1..n -> Uploaded] : n \in 0..MaxUpload}

\* cleanContent: every run of white space becomes one space, and the spaces
\* at both ends are trimmed
RECURSIVE cleanContent(_)
cleanContent(content) ==
  IF content = << >> THEN << >>
  ELSE IF Head(content) = " " THEN cleanContent(Tail(content))
  ELSE LET rest == cleanContent(Tail(content))
       IN  IF Len(content) >= 2 /\ content[2] = " " /\ rest # << >>
             THEN <<Head(content), " ">> \o rest
             ELSE <<Head(content)>> \o rest

\* validateFile: "" when the file passes, else the error
validateFile(file) ==
  IF file.size > MaxFileSize THEN "File size exceeds limit"
  ELSE IF file.type \notin allowedTypes THEN "File type not supported"
  ELSE ""

\* processPDF, processText, processWord: the content, or the error thrown
processPDF(file) == [error |-> "PDF processing via file upload is temporarily disabled"]

processText(file) == [error |-> "", content |-> file.content]

processWord(file) == [error |-> "Word document processing not yet implemented"]

\* processFile: the processed file, or the error thrown
processFile(file) ==
  IF validateFile(file) # "" THEN [error |-> validateFile(file)]
  ELSE LET read ==
             CASE file.type = "application/pdf" -> processPDF(file)
               [] file.type \in {"text/plain", "text/markdown"} ->
                    processText(file)
               [] OTHER -> processWord(file)
       IN  IF read.error # "" THEN read
           ELSE IF cleanContent(read.content) = << >>
             THEN [error |-> "No readable content found in file"]
           ELSE [error |-> "", content |-> cleanContent(read.content)]

\* processFiles: the positions of the files that were processed and of those
\* that failed, in order
RECURSIVE Positions(_, _, _)
Positions(files, i, failed) ==
  IF i > Len(files) THEN << >>
  ELSE (IF (processFile(files[i]).error # "") = failed THEN <<i>> ELSE << >>)
         \o Positions(files, i + 1, failed)

processFiles(files) ==
  [success |-> Positions(files, 1, TRUE) = << >>,
   files |-> Positions(files, 1, FALSE),
   errors |-> Positions(files, 1, TRUE)]

\* POST /api/upload
UploadPOST(files) ==
  /\ applied = Input("upload", files)
  /\ applied' =
       IF Len(files) = 0
         THEN [op |-> "upload", input |-> files, status |-> 400,
               success |-> FALSE, files |-> << >>, errors |-> << >>]
         ELSE [op |-> "upload", input |-> files, status |-> 200,
               success |-> processFiles(files).success,
               files |-> processFiles(files).files,
               errors |-> processFiles(files).errors]
  /\ UNCHANGED <<now, requests, recent, last, wrl, waiter, inflight>>
  /\ UNCHANGED <<editorVars, sourceItems>>

NextUpload ==
  /\ applied.op = "input"
  /\ applied.of = "upload"
  /\ UploadPOST(applied.input)

\* any upload arrives
InitUpload ==
  /\ InitProgram
  /\ \E files \in Uploads : applied = Input("upload", files)

SpecUpload == InitUpload /\ [][NextUpload]_vars

\* the members of a sequence
Range(s) == {s[i] : i \in 1..Len(s)}

\* C13: after POST /api/upload every uploaded file of an advertised type
\* (.pdf, .txt, .md), of at most the maximal size and with a content that is
\* not empty is in `files` and not in `errors`.
C13_AdvertisedTypesProcessed ==
  applied.op = "upload" =>
    \A i \in 1..Len(applied.input) :
      LET file == applied.input[i]
      IN  (/\ file.ext \in supportedTypes
           /\ file.size <= MaxFileSize
           /\ file.content # << >>)
            => /\ i \in Range(applied.files)
               /\ i \notin Range(applied.errors)

-----------------------------------------------------------------------------
(* Claims about the handlers of the editor page *)

\* the requests of the editor to /api/analyze and /api/generate that have
\* not been answered: those on their way or with the server, and the one
\* withRateLimit has denied and is about to reject
PipelineRequest(r) == r.from = "editor" /\ r.route \in {"analyze", "generate"}

PipelineInFlight(bag, w) ==
  BagCardinality([r \in {q \in BagToSet(bag) : PipelineRequest(q)}
                    |-> bag[r]])
    + (IF PipelineRequest(w.request) THEN 1 ELSE 0)

\* C14: at most one request of the editor to /api/analyze or /api/generate
\* is unanswered at any time, and while the workflow status is 'analyzing'
\* or 'generating' no step sends another one.
C14_OnePipelineRequest ==
  /\ [](PipelineInFlight(inflight, wrl) <= 1)
  /\ [][workflow.status \in {"analyzing", "generating"} =>
          PipelineInFlight(inflight', wrl') <= PipelineInFlight(inflight, wrl)
       ]_vars

\* the research service is being called for the editor
C14_Witness ==
  /\ workflow.status = "analyzing"
  /\ PipelineInFlight(inflight, wrl) = 1
  /\ \E r \in InFlight :
       r.route = "analyze" /\ r.from = "editor" /\ r.pc = "calling"

\* the publish requests of the page that have not been answered
PublishRequest(r) == r.from \in FromPage /\ r.route = "publish"

PublishInFlight(bag, w) ==
  BagCardinality([r \in {q \in BagToSet(bag) : PublishRequest(q)}
                    |-> bag[r]])
    + (IF PublishRequest(w.request) THEN 1 ELSE 0)

\* C15: at most one request of the page to /api/wordpress/publish is
\* unanswered at any time.
C15_OnePublishInFlight == PublishInFlight(inflight, wrl) <= 1

\* the site the switch of the export panel selects
SelectedSite ==
  IF wordpress.useCustomSite THEN wordpress.customSite
  ELSE wordpress.defaultSite

\* C16: canPublish() is true exactly when the selected site is there and
\* connected and publishStatus is 'idle'; and a step sends a publish request
\* of the page or sets publishStatus to 'publishing' only when canPublish()
\* is true and blogGeneration is set.
C16_PublishGuard ==
  /\ [](canPublish(wordpress) <=>
          /\ ~SelectedSite.null
          /\ SelectedSite.connected
          /\ wordpress.publishStatus = "idle")
  /\ [][(\/ PublishInFlight(inflight', wrl') > PublishInFlight(inflight, wrl)
         \/ /\ wordpress'.publishStatus = "publishing"
            /\ wordpress.publishStatus # "publishing")
          => canPublish(wordpress) /\ workflow.blogGeneration # "null"]_vars

\* a publish request for the custom site has left the page
C16_Witness ==
  /\ wordpress.useCustomSite
  /\ SelectedSite.connected
  /\ wordpress.publishStatus = "publishing"
  /\ ~canPublish(wordpress)
  /\ PublishInFlight(inflight, wrl) = 1

\* the response the editor has just received for a request to `route`
Answered(route) ==
  last.response.from = "editor" /\ last.response.route = route

\* C17: a response that is not ok to a request of the editor leaves the
\* workflow status 'error', an ok response to /api/generate leaves it
\* 'completed'; once the status is 'error' or 'completed' no step changes it
\* and no step sends a request to /api/analyze or /api/generate; an article
\* or an error message is there only with one of these two statuses.
C17_ErrorAndCompletedAbsorbing ==
  /\ []((Answered("analyze") \/ Answered("generate")) /\ ~Ok(last.response)
          => workflow.status = "error")
  /\ [](Answered("generate") /\ Ok(last.response)
          => workflow.status = "completed")
  /\ [](workflow.blogGeneration # "null" => workflow.status = "completed")
  /\ [](workflow.analysisError # "null" \/ workflow.generationError # "null"
          => workflow.status = "error")
  /\ [][workflow.status \in {"error", "completed"} =>
          /\ workflow'.status = workflow.status
          /\ PipelineInFlight(inflight', wrl') = 0
          /\ ~canAnalyze(workflow') /\ ~canGenerate(workflow')]_vars

\* the writing step has failed with sources, topic and analysis in place
C17_Witness ==
  /\ workflow.status = "error"
  /\ workflow.generationError # "null"
  /\ workflow.sourceAnalysis # "null"
  /\ workflow.sources /\ workflow.topic
  /\ Answered("generate")

-----------------------------------------------------------------------------
(* Claims about the route handlers and the limiter *)

\* the body lacks a field the handler of `route` requires
Incomplete(route, body) == ~body.main \/ (route.second /\ ~body.detail)

\* the routes that call withRateLimit
LimitedRoutes == {r \in Routes : r.service # ""}

\* The rate-limited routes with clients that send any request to them; the
\* external call of a handler returns, fails or throws
LimitedStep ==
  \/ \E route \in LimitedRoutes, body \in Bodies :
       RouteReceive(route, "client", body)
  \/ RouteReject
  \/ \E r \in BagToSet(inflight), outcome \in EditorOutcomes :
       RouteCallReturns(r, outcome)

NextLimited == LimitedStep

SpecLimited == Init /\ [][NextLimited]_vars

\* C18: a step in which a rate-limited route answers a request whose body
\* lacks a required field answers it with status 400, calls neither
\* checkLimit nor the external service and leaves the stored timestamps of
\* every key as they were.
C18_ValidationBeforeAccounting ==
  [][(\E route \in LimitedRoutes :
        /\ last'.response.route = route.name
        /\ Incomplete(route, last'.response.body))
       => /\ last'.response.status = 400
          /\ ~last'.response.called
          /\ last'.op = "none"
          /\ requests' = requests
          /\ recent' = recent]_vars

\* the publish route answers 400 to a body without an article while the
\* window of its key is full
C18_Witness ==
  /\ last.response.route = "publish"
  /\ ~last.response.body.main
  /\ last.response.status = 400
  /\ AtLimit(Get(requests, Key(PublishRoute.service, ClientIP)),
             ConfigOf(PublishRoute.service))

\* the first instant from `clock` on at which checkLimit would admit caller
\* c with the stored timestamps of `map`
AdmittedAgainAt(map, c, clock) ==
  CHOOSE t \in clock..(clock + WindowOf(c)) :
    /\ checkLimit(map, c[1], c[2], t).allowed
    /\ \A u \in clock..(t - 1) : ~checkLimit(map, c[1], c[2], u).allowed

\* C19: a step in which checkLimit denies a call leaves the stored
\* timestamps of every key as they were, and with them the number of
\* remaining requests of the key and the instant at which the key is admitted
\* again.
C19_DeniedChecksCostNothing ==
  [][(last'.op \in CheckOps /\ ~last'.allowed) =>
       LET c == <<last'.service, last'.identifier>>
       IN  /\ requests' = requests
           /\ now' = now
           /\ getRemainingRequests(requests', c[1], c[2], now')
                = getRemainingRequests(requests, c[1], c[2], now)
           /\ AdmittedAgainAt(requests', c, now')
                = AdmittedAgainAt(requests, c, now)]_vars

\* a call is denied one instant after the window of its key was filled
C19_Witness ==
  /\ last.op = "checkLimit"
  /\ ~last.allowed
  /\ now > 0
  /\ now < WindowMs
  /\ Len(Stored(LastCaller)) = MaxOf(LastCaller)
  /\ Stored(LastCaller)[1] + WindowOf(LastCaller) > now

-----------------------------------------------------------------------------
(* The publish operation of /api/wordpress/publish and lib/wordpress.ts *)

\* what a publish request asks for: categories, tags (those of the options
\* and of the article together), a featured image, and the site of its own
\* credentials in place of the default site
PublishOptions ==
  [categories : BOOLEAN, tags : BOOLEAN, image : BOOLEAN,
   siteCredentials : BOOLEAN]

\* wpService: the default service, or one made for the credentials
wpService(options) == IF options.siteCredentials THEN "custom" ELSE "default"

\* a request to the site of a service
ToSite(run, request) ==
  Append(run.sent, [service |-> wpService(run.options), request |-> request])

\* The operation at one of its awaits: pc is the request it sends next, sent
\* the requests it has sent, test the result of testConnection, ids the
\* stages of publishPost that gave the post an id, status the status of the
\* answer of the route (0 before the answer).
PublishRun(pc, options, sent, test, status) ==
  [op |-> "publish", pc |-> pc, options |-> options, sent |-> sent,
   test |-> test, ids |-> {}, status |-> status]

NotTested == [done |-> FALSE, success |-> FALSE]

Tested(success) == [done |-> TRUE, success |-> success]

\* the stages of publishPost in order, and the first one from stage i on
\* that the options ask for
Stages == <<"categories", "tags", "media", "posts">>

Asked(options, stage) ==
  CASE stage = "categories" -> options.categories
    [] stage = "tags" -> options.tags
    [] stage = "media" -> options.image
    [] OTHER -> TRUE

StageFrom(options, i) ==
  Stages[CHOOSE j \in i..Len(Stages) :
           /\ Asked(options, Stages[j])
           /\ \A l \in i..(j - 1) : ~Asked(options, Stages[l])]

ConnectionNeverFailed(test) == FALSE

\* if (!connectionTest.success) throw
ConnectionFailed(test) == ~test.success

\* publishToWordPress of the route after testConnection has returned: it
\* throws, and the handler answers with the status handleAPIError gives, or
\* it goes on to publishPost
AfterTest(run, sent, test) ==
  IF ConnectionFailed(test)
    THEN PublishRun("done", run.options, sent, test,
                    handleAPIError([kind |-> "Error", status |-> 0]))
    ELSE PublishRun(StageFrom(run.options, 1), run.options, sent, test, 0)

PublishFrame ==
  /\ UNCHANGED <<now, requests, recent, last, wrl, waiter, inflight>>
  /\ UNCHANGED <<editorVars, sourceItems>>

\* testConnection: the request to the API root; when it fails the catch
\* block returns a result without success
testConnectionRoot(ok) ==
  /\ applied.op = "publish"
  /\ applied.pc = "root"
  /\ applied' =
       IF ok THEN [applied EXCEPT !.pc = "settings",
                                  !.sent = ToSite(applied, "root")]
       ELSE AfterTest(applied, ToSite(applied, "root"), Tested(FALSE))
  /\ PublishFrame

\* testConnection: the request for the settings, with the credentials
testConnectionSettings(ok) ==
  /\ applied.op = "publish"
  /\ applied.pc = "settings"
  /\ applied' = AfterTest(applied, ToSite(applied, "settings"), Tested(ok))
  /\ PublishFrame

\* stage i of publishPost sends its request and gives an id or none
Prepared(run, i, ok) ==
  [run EXCEPT !.pc = StageFrom(run.options, i + 1),
              !.sent = ToSite(run, Stages[i]),
              !.ids = IF ok THEN @ \cup {Stages[i]} ELSE @]

\* getOrCreateCategories: an error is caught and logged
getOrCreateCategories(ok) ==
  /\ applied.op = "publish"
  /\ applied.pc = "categories"
  /\ applied' = Prepared(applied, 1, ok)
  /\ PublishFrame

\* getOrCreateTags: an error is caught and logged
getOrCreateTags(ok) ==
  /\ applied.op = "publish"
  /\ applied.pc = "tags"
  /\ applied' = Prepared(applied, 2, ok)
  /\ PublishFrame

\* uploadFeaturedImage: an error becomes a warning
uploadFeaturedImage(ok) ==
  /\ applied.op = "publish"
  /\ applied.pc = "media"
  /\ applied' = Prepared(applied, 3, ok)
  /\ PublishFrame

\* publishPost creates the post; the route answers 200 to a result with
\* success and 500 to one without
createPost(ok) ==
  /\ applied.op = "publish"
  /\ applied.pc = "posts"
  /\ applied' = [applied EXCEPT
                   !.pc = "done",
                   !.sent = ToSite(applied, "posts"),
                   !.status = RouteResponse(
                                PublishRoute,
                                [kind |-> IF ok THEN "ok" ELSE "failure"]
                              ).status]
  /\ PublishFrame

NextPublish ==
  \/ \E ok \in BOOLEAN : testConnectionRoot(ok)
  \/ \E ok \in BOOLEAN : testConnectionSettings(ok)
  \/ \E ok \in BOOLEAN : getOrCreateCategories(ok)
  \/ \E ok \in BOOLEAN : getOrCreateTags(ok)
  \/ \E ok \in BOOLEAN : uploadFeaturedImage(ok)
  \/ \E ok \in BOOLEAN : createPost(ok)

\* an admitted publish request with any options
InitPublish ==
  /\ InitProgram
  /\ \E options \in PublishOptions :
       applied = PublishRun("root", options, << >>, NotTested, 0)

SpecPublish == InitPublish /\ [][NextPublish]_vars

\* the requests that create something on the site
Creating == {"categories", "tags", "media", "posts"}

\* the requests the operation has sent
SentRequests == {applied.sent[i].request : i \in 1..Len(applied.sent)}

\* C20: the publish operation sends a category, tag, media or post request
\* only after testConnection has succeeded, with the two requests of the test
\* sent first and every request sent to the site of the selected service;
\* when the test fails none of them is sent and the route has answered with
\* an error status.
C20_TestBeforePublish ==
  applied.op = "publish" =>
    /\ SentRequests \cap Creating # {} =>
         /\ applied.test = Tested(TRUE)
         /\ applied.sent[1].request = "root"
         /\ applied.sent[2].request = "settings"
    /\ \A i \in 1..Len(applied.sent) :
         applied.sent[i].service = wpService(applied.options)
    /\ applied.status = 200 => "posts" \in SentRequests
    /\ applied.test = Tested(FALSE) =>
         /\ SentRequests \cap Creating = {}
         /\ applied.pc = "done"
         /\ applied.status >= 400

\* the test has failed on the settings request and the route has answered
C20_Witness ==
  /\ applied.op = "publish"
  /\ applied.test = Tested(FALSE)
  /\ Len(applied.sent) = 2
  /\ applied.sent[2].request = "settings"
  /\ applied.options.categories
  /\ applied.options.siteCredentials
  /\ applied.status = 500

-----------------------------------------------------------------------------
(* The writing service (lib/claude.ts) behind /api/generate *)

\* the least number of words of an article the route accepts
MinWords == 200

\* the number of words of the content of the fallback article
FallbackWords == 14

\* how far from 0 and from MinWords the word counts of the answers go
WordMargin == 3

WordCounts ==
  (1..WordMargin) \cup ((MinWords - WordMargin)..(MinWords + WordMargin))
    \cup {FallbackWords}

\* a content: the empty string, white space only, or text of some words
ArticleContents ==
  {[text |-> "", words |-> 0], [text |-> "blank", words |-> 0]} \cup
  {[text |-> "words", words |-> n] : n \in WordCounts}

\* the object in the answer of the writing service, by the fields the parser
\* looks at: title and metaDescription there and not empty, the content,
\* tags, seoScore and excerpt there
BlogObjects ==
  [title : BOOLEAN, content : ArticleContents, metaDescription : BOOLEAN,
   tags : BOOLEAN, seoScore : BOOLEAN, excerpt : BOOLEAN]

\* how the call of the writing service can end: it throws, its message has
\* no text block, its text holds no braces, the text between the braces is
\* not JSON, or it is an object
ClaudeAnswers ==
  {[kind |-> k] : k \in {"error", "noText", "noJson", "badJson"}} \cup
  {[kind |-> "json", parsed |-> o] : o \in BlogObjects}

\* the article parseBlogResponse returns in its catch block
FallbackBlog ==
  [from |-> "fallback", title |-> TRUE,
   content |-> [text |-> "words", words |-> FallbackWords],
   metaDescription |-> TRUE, tags |-> "fallback", seoScore |-> "0",
   excerpt |-> "fallback"]

\* parseBlogResponse
parseBlogResponse(response) ==
  IF response.kind # "json" THEN FallbackBlog
  ELSE LET parsed == response.parsed
       IN  IF ~parsed.title \/ parsed.content.text = ""
              \/ ~parsed.metaDescription
             THEN FallbackBlog
           ELSE [from |-> "service", title |-> TRUE,
                 content |-> parsed.content, metaDescription |-> TRUE,
                 tags |-> IF parsed.tags THEN "service" ELSE "none",
                 seoScore |-> IF parsed.seoScore THEN "service" ELSE "75",
                 excerpt |-> IF parsed.excerpt THEN "service"
                             ELSE "content"]

\* generateBlogPost: the request throws, or its message is parsed
generateBlogPost(response) ==
  IF response.kind = "error" THEN [thrown |-> TRUE]
  ELSE [thrown |-> FALSE, blog |-> parseBlogResponse(response)]

NeverTooShort(wordCount) == FALSE

\* if (wordCount < 200) throw
TooShort(wordCount) == wordCount < MinWords

\* generateBlogWithClaude: the article, or an error thrown
generateBlog(response) ==
  LET result == generateBlogPost(response)
  IN  IF result.thrown THEN result
      ELSE IF ~result.blog.title \/ result.blog.content.text = ""
        THEN [thrown |-> TRUE]
      ELSE IF TooShort(result.blog.content.words) THEN [thrown |-> TRUE]
      ELSE result

\* the operation /api/generate runs under withRateLimit for an admitted
\* request, and the answer of the route to it
generateBlogWithClaude(response) ==
  /\ applied = Input("generate", response)
  /\ applied' =
       LET result == generateBlog(response)
           outcome == IF result.thrown
                        THEN [kind |-> "throws",
                              error |-> [kind |-> "Error", status |-> 0]]
                        ELSE [kind |-> "ok"]
           answer == RouteResponse(GenerateRoute, outcome)
       IN  [op |-> "generate", answer |-> response,
            returned |-> generateBlogPost(response),
            status |-> answer.status, success |-> ~result.thrown,
            blog |-> IF result.thrown THEN [from |-> "none"]
                     ELSE result.blog]
  /\ UNCHANGED <<now, requests, recent, last, wrl, waiter, inflight>>
  /\ UNCHANGED <<editorVars, sourceItems>>

NextWriting ==
  /\ applied.op = "input"
  /\ applied.of = "generate"
  /\ generateBlogWithClaude(applied.input)

\* an admitted request meets any answer of the writing service
InitWriting ==
  /\ InitProgram
  /\ \E response \in ClaudeAnswers : applied = Input("generate", response)

SpecWriting == InitWriting /\ [][NextWriting]_vars

\* C21: /api/generate answers with success only an article with a title,
\* a content that is not empty and at least MinWords words of content, and
\* answers every other outcome with an error status; when parseBlogResponse
\* has returned the fallback article the answer is an error.
C21_ArticleAcceptance ==
  applied.op = "generate" =>
    /\ applied.success =>
         /\ applied.status = 200
         /\ applied.blog.title
         /\ applied.blog.content.text = "words"
         /\ applied.blog.content.words >= MinWords
    /\ ~applied.success => applied.status >= 400
    /\ (~applied.returned.thrown /\ applied.returned.blog = FallbackBlog)
         => ~applied.success /\ applied.status >= 400

\* the writing service answered with text that is not JSON and the route
\* answered with an error
C21_Witness ==
  /\ applied.op = "generate"
  /\ applied.answer.kind = "badJson"
  /\ ~applied.returned.thrown
  /\ applied.returned.blog = FallbackBlog
  /\ applied.status = 500

-----------------------------------------------------------------------------
(* Claims about the operation of /api/analyze *)

\* C22: the operation of /api/analyze calls the research service only as
\* its third call, after processSources reported success and
\* validateSourcesForAnalysis reported valid; when either does not, the
\* research service is not called and the route answers with an error.
C22_ResearchOnValidSources ==
  applied.op = "analyze" =>
    /\ "analyzeSources" \in Range(applied.calls) =>
         /\ applied.sources.processed = "success"
         /\ applied.sources.validation = "valid"
         /\ applied.calls = <<"processSources", "validateSourcesForAnalysis",
                              "analyzeSources">>
    /\ (applied.sources.processed # "success"
          \/ applied.sources.validation # "valid")
         => /\ "analyzeSources" \notin Range(applied.calls)
            /\ ~applied.called
            /\ ~applied.success
            /\ applied.status >= 400

\* processed sources fail the validation and the route answers with an
\* error, whatever the research service would have answered
C22_Witness ==
  /\ applied.op = "analyze"
  /\ applied.sources.processed = "success"
  /\ applied.sources.validation = "invalid"
  /\ applied.calls = <<"processSources", "validateSourcesForAnalysis">>
  /\ applied.http.kind = "data"
  /\ applied.status = 500

-----------------------------------------------------------------------------
(* Error translation: lib/error-handler.ts and the catch blocks *)

\* the statuses of the responses of the external services that are errors
UpstreamStatuses == {400, 401, 403, 404, 413, 429, 500, 503}

\* an APIError, a RateLimitError or a ValidationError
APIError(name, statusCode, service) ==
  [kind |-> "APIError", name |-> name, status |-> statusCode,
   service |-> service]

\* what the catch block of a handler can catch: an error of the three
\* classes of the error handler, an axios error with a response (with or
\* without a retry-after header), an axios error with a request and no
\* response, anything else
Thrown ==
  {APIError("APIError", s, v) : s \in {500, 502}, v \in {"unknown", "site"}}
    \cup {APIError("RateLimitError", 429, v) : v \in {"claude", "site"}}
    \cup {APIError("ValidationError", 400, "validation")}
    \cup {[kind |-> "response", status |-> s, retryAfter |-> h] :
            s \in UpstreamStatuses, h \in BOOLEAN}
    \cup {[kind |-> "request", status |-> 0], [kind |-> "Error", status |-> 0]}

Always500(error, service) == APIError("APIError", 500, service)

\* handleAPIError: the APIError it returns
handleAPIErrorResult(error, service) ==
  IF error.kind = "APIError" THEN error
  ELSE IF error.kind = "response"
    THEN IF error.status = 429 THEN APIError("RateLimitError", 429, service)
         ELSE APIError("APIError", error.status, service)
  ELSE IF error.kind = "request" THEN APIError("APIError", 503, service)
  ELSE APIError("APIError", 500, service)

\* the catch block of the handler of `route`: the error is translated and
\* the response has the statusCode of the result as its status
catchBlock(route, error) ==
  /\ applied = Input("catch", [route |-> route.name, error |-> error])
  /\ applied' =
       LET apiError == handleAPIErrorResult(error, route.name)
       IN  [op |-> "catch", route |-> route.name, error |-> error,
            apiError |-> apiError, status |-> apiError.status]
  /\ UNCHANGED <<now, requests, recent, last, wrl, waiter, inflight>>
  /\ UNCHANGED <<editorVars, sourceItems>>

NextErrors ==
  /\ applied.op = "input"
  /\ applied.of = "catch"
  /\ catchBlock(RouteByName(applied.input.route), applied.input.error)

\* the handler of any route catches any error
InitErrors ==
  /\ InitProgram
  /\ \E route \in Routes, error \in Thrown :
       applied = Input("catch", [route |-> route.name, error |-> error])

SpecErrors == InitErrors /\ [][NextErrors]_vars

\* C23: the catch block of every route translates an APIError into itself,
\* a response with status 429 into a RateLimitError with statusCode 429, a
\* response with another status into an APIError with that status, a request
\* without a response into 503 and anything else into 500, and answers with
\* the statusCode of the result, which is the status the route model uses.
C23_ErrorTranslationTable ==
  applied.op = "catch" =>
    /\ applied.error.kind = "APIError" => applied.apiError = applied.error
    /\ (applied.error.kind = "response" /\ applied.error.status = 429) =>
         /\ applied.apiError.name = "RateLimitError"
         /\ applied.apiError.status = 429
    /\ (applied.error.kind = "response" /\ applied.error.status # 429) =>
         /\ applied.apiError.name = "APIError"
         /\ applied.apiError.status = applied.error.status
    /\ applied.error.kind = "request" =>
         applied.apiError.name = "APIError" /\ applied.apiError.status = 503
    /\ applied.error.kind = "Error" =>
         applied.apiError.name = "APIError" /\ applied.apiError.status = 500
    /\ applied.apiError.kind = "APIError"
    /\ applied.status = applied.apiError.status
    /\ applied.status = handleAPIError(applied.error)

\* the URL extraction has caught a 429 of the external service
C23_Witness ==
  /\ applied.op = "catch"
  /\ applied.route = JinaUrlRoute.name
  /\ applied.error.kind = "response"
  /\ applied.error.status = 429
  /\ applied.apiError = APIError("RateLimitError", 429, JinaUrlRoute.name)
  /\ applied.status = 429

====
